---- MODULE Spec2Model ----
(***************************************************************************)
(* A model of neat/iznn/__init__.py: the Izhikevich spiking neuron         *)
(* (IZNeuron), the network that steps a collection of them (IZNN), the     *)
(* phenotype builder (IZNN.create) and the gene distance                   *)
(* (IZNodeGene.distance); and of the record of best genomes kept by        *)
(* neat/statistics.py (StatisticsReporter).                                *)
(*                                                                         *)
(* Python floats are modelled as fixed-point numbers: the float x is the   *)
(* integer x * Scale, products are truncated to that grid.  The finite     *)
(* range is -FMax .. FMax; as in IEEE-754 arithmetic a sum or product      *)
(* that leaves the range is an infinity, inf - inf and 0 * inf are NaN,    *)
(* and every comparison with NaN is false.  As in Python, the power        *)
(* operator is the one operation that raises OverflowError instead of      *)
(* returning an infinity.                                                  *)
(***************************************************************************)
EXTENDS Integers, Sequences, FiniteSets, TLC

VARIABLES genome, pc, neurons, inputs, outputs, input_values, steps, last,
          genes, most_fit_genomes, generation_statistics

vars == <<genome, pc, neurons, inputs, outputs, input_values, steps, last,
          genes, most_fit_genomes, generation_statistics>>

\* The state of IZNN and its genome; the gene pair under comparison; the
\* state of StatisticsReporter.
netVars == <<genome, pc, neurons, inputs, outputs, input_values, steps>>
geneVars == <<genes>>
statVars == <<most_fit_genomes, generation_statistics>>

(***************************************************************************)
(* Bounds of the model.                                                    *)
(***************************************************************************)
Scale == 100
FMax == 20000000
MaxSteps == 3
MaxConns == 3

(***************************************************************************)
(* Floats.                                                                 *)
(***************************************************************************)
PInf == FMax + 1
NInf == -(FMax + 1)
NaN == FMax + 2

Lit(num, den) == (num * Scale) \div den

IsNaN(x) == x = NaN
IsInf(x) == x = PInf \/ x = NInf
IsFin(x) == ~IsNaN(x) /\ ~IsInf(x)

Abs(x) == IF x < 0 THEN -x ELSE x
Sign(x) == IF x < 0 THEN -1 ELSE IF x > 0 THEN 1 ELSE 0

Clip(n) == IF n > FMax THEN PInf ELSE IF n < -FMax THEN NInf ELSE n

FNeg(x) == IF IsNaN(x) THEN NaN ELSE -x

FAdd(x, y) ==
    IF IsNaN(x) \/ IsNaN(y) THEN NaN
    ELSE IF IsInf(x) THEN (IF IsInf(y) /\ y # x THEN NaN ELSE x)
    ELSE IF IsInf(y) THEN y
    ELSE Clip(x + y)

FSub(x, y) == FAdd(x, FNeg(y))

\* |x * y| on the fixed-point grid; exceeds FMax when the product overflows.
MulMag(ax, ay) ==
    LET hi == ax \div Scale
        lo == ax % Scale
    IN  IF hi > 0 /\ ay > FMax \div hi THEN FMax + 1
        ELSE hi * ay + (lo * ay) \div Scale

FMul(x, y) ==
    IF IsNaN(x) \/ IsNaN(y) THEN NaN
    ELSE IF IsInf(x) \/ IsInf(y)
         THEN (IF x = 0 \/ y = 0 THEN NaN
               ELSE IF Sign(x) * Sign(y) > 0 THEN PInf ELSE NInf)
    ELSE LET m == MulMag(Abs(x), Abs(y))
         IN  IF m > FMax THEN (IF Sign(x) * Sign(y) > 0 THEN PInf ELSE NInf)
             ELSE Sign(x) * Sign(y) * m

\* x > y on floats.
FGt(x, y) == ~IsNaN(x) /\ ~IsNaN(y) /\ x > y

\* x ** 2 raises OverflowError: x is finite and its square is out of range.
Pow2Raises(x) == IsFin(x) /\ MulMag(Abs(x), Abs(x)) > FMax

\* x ** 2 when it does not raise.
FPow2(x) ==
    IF IsNaN(x) THEN NaN
    ELSE IF IsInf(x) THEN PInf
    ELSE MulMag(Abs(x), Abs(x))

(***************************************************************************)
(* IZNeuron.                                                               *)
(***************************************************************************)
Zero == Lit(0, 1)
One == Lit(1, 1)
Half == Lit(5, 10)
QuadCoeff == Lit(4, 100)
Five == Lit(5, 1)
Offset == Lit(140, 1)
Threshold == Lit(30, 1)

\* IZNeuron.__init__: the state of a neuron built from (bias, a, b, c, d, inputs).
IZNeuron(bias, a, b, c, d, ins) ==
    [a |-> a, b |-> b, c |-> c, d |-> d, bias |-> bias, inputs |-> ins,
     v |-> c, u |-> FMul(b, c), fired |-> Zero, current |-> bias]

\* The right-hand side of lines 118 and 119: v + 0.5 * dt * (0.04 * v ** 2 + 5 * v + 140 - u + I).
HalfStep(v, u, current, dt) ==
    FAdd(v, FMul(FMul(Half, dt),
                 FAdd(FSub(FAdd(FAdd(FMul(QuadCoeff, FPow2(v)), FMul(Five, v)), Offset), u),
                      current)))

\* The right-hand side of line 120: u + dt * a * (b * v - u).
RecoveryStep(n, v, dt) ==
    FAdd(n.u, FMul(FMul(dt, n.a), FSub(FMul(n.b, v), n.u)))

\* The try block with line 119 reading the v from before the call, as if
\* both half-steps were computed before v is assigned.
IntegrateFromOldV(n, dt) ==
    LET v1 == HalfStep(n.v, n.u, n.current, dt)
        v2 == FAdd(v1, FSub(v1, n.v))
    IN  IF Pow2Raises(n.v) THEN [raised |-> TRUE, v |-> n.v, u |-> n.u]
        ELSE IF Pow2Raises(v1) THEN [raised |-> TRUE, v |-> v1, u |-> n.u]
        ELSE [raised |-> FALSE, v |-> v2, u |-> RecoveryStep(n, v2, dt)]

\* The try block of IZNeuron.advance: [raised, v, u] when the block is left.
\* An OverflowError of line 118 leaves v as it was; one of line 119 leaves the
\* v line 118 assigned; u is assigned only by line 120, which cannot raise.
Integrate(n, dt) ==
    LET v1 == HalfStep(n.v, n.u, n.current, dt)
        v2 == HalfStep(v1, n.u, n.current, dt)
    IN  IF Pow2Raises(n.v) THEN [raised |-> TRUE, v |-> n.v, u |-> n.u]
        ELSE IF Pow2Raises(v1) THEN [raised |-> TRUE, v |-> v1, u |-> n.u]
        ELSE [raised |-> FALSE, v |-> v2, u |-> RecoveryStep(n, v2, dt)]

\* The except clause of IZNeuron.advance.
Recover(n, r) ==
    IF r.raised THEN [v |-> n.c, u |-> FMul(n.b, n.c)] ELSE [v |-> r.v, u |-> r.u]

\* Spike with line 131 written "self.u = self.d".
SpikeAssignsD(n, s) ==
    IF FGt(s.v, Threshold)
    THEN [n EXCEPT !.fired = One, !.v = n.c, !.u = n.d]
    ELSE [n EXCEPT !.fired = Zero, !.v = s.v, !.u = s.u]

\* Spike without line 126 and with line 129 written "self.fired += 1.0".
SpikeCounts(n, s) ==
    IF FGt(s.v, Threshold)
    THEN [n EXCEPT !.fired = FAdd(n.fired, One), !.v = n.c, !.u = FAdd(s.u, n.d)]
    ELSE [n EXCEPT !.v = s.v, !.u = s.u]

\* Lines 126-131: the spike test and the reset after a spike.
Spike(n, s) ==
    IF FGt(s.v, Threshold)
    THEN [n EXCEPT !.fired = One, !.v = n.c, !.u = FAdd(s.u, n.d)]
    ELSE [n EXCEPT !.fired = Zero, !.v = s.v, !.u = s.u]

\* IZNeuron.advance with the except clause calling self.reset().
NeuronAdvanceResetOnOverflow(n, dt) ==
    IF Integrate(n, dt).raised
    THEN Spike([n EXCEPT !.current = n.bias], Recover(n, Integrate(n, dt)))
    ELSE Spike(n, Recover(n, Integrate(n, dt)))

\* IZNeuron.advance.
NeuronAdvance(n, dt) == Spike(n, Recover(n, Integrate(n, dt)))

\* reset without line 138.
NeuronResetKeepsCurrent(n) ==
    [n EXCEPT !.v = n.c, !.u = FMul(n.b, n.c), !.fired = Zero]

\* IZNeuron.reset.
NeuronReset(n) ==
    [n EXCEPT !.v = n.c, !.u = FMul(n.b, n.c), !.fired = Zero, !.current = n.bias]

(***************************************************************************)
(* Dictionaries: functions on the set of their keys.                       *)
(***************************************************************************)
EmptyDict == [k \in {} |-> Zero]

DictSet(f, key, val) == [k \in DOMAIN f \cup {key} |-> IF k = key THEN val ELSE f[k]]

Range(s) == {s[i] : i \in DOMAIN s}

\* The orders in which a collection with the keys S can be iterated.
Orders(S) == {s \in [1..Cardinality(S) -> S] : \A i, j \in DOMAIN s : i # j => s[i] # s[j]}

(***************************************************************************)
(* IZNN.                                                                   *)
(***************************************************************************)
\* IZNN.set_inputs: [err, input_values]. zip(self.inputs, inputs) is folded
\* from the left.
RECURSIVE BindInputs(_, _, _)
BindInputs(ivals, keys, vals) ==
    IF keys = <<>> \/ vals = <<>> THEN ivals
    ELSE BindInputs(DictSet(ivals, Head(keys), Head(vals)), Tail(keys), Tail(vals))

\* set_inputs without the assertion of line 156: zip stops at the shorter sequence.
SetInputsNoAssert(ivals, keys, vals) ==
    [err |-> "none", input_values |-> BindInputs(ivals, keys, vals)]

SetInputsCall(ivals, keys, vals) ==
    IF Len(vals) # Len(keys)
    THEN [err |-> "AssertionError", input_values |-> ivals]
    ELSE [err |-> "none", input_values |-> BindInputs(ivals, keys, vals)]

\* Lines 175-179 with the lookup written "self.input_values.get(i, 0.0)".
InputValueOrZero(ns, ivals, i) ==
    IF i \in DOMAIN ns THEN [raised |-> FALSE, ivalue |-> ns[i].fired]
    ELSE IF i \in DOMAIN ivals THEN [raised |-> FALSE, ivalue |-> ivals[i]]
    ELSE [raised |-> FALSE, ivalue |-> Zero]

\* Lines 175-179 with the lookup in input_values tried first.
InputValuePrefersInputValues(ns, ivals, i) ==
    IF i \in DOMAIN ivals THEN [raised |-> FALSE, ivalue |-> ivals[i]]
    ELSE IF i \in DOMAIN ns THEN [raised |-> FALSE, ivalue |-> ns[i].fired]
    ELSE [raised |-> TRUE, ivalue |-> Zero]

\* Lines 175-179: the value of the source i, [raised, ivalue]; the lookup in
\* input_values raises KeyError for a key it does not hold.
InputValue(ns, ivals, i) ==
    IF i \in DOMAIN ns THEN [raised |-> FALSE, ivalue |-> ns[i].fired]
    ELSE IF i \in DOMAIN ivals THEN [raised |-> FALSE, ivalue |-> ivals[i]]
    ELSE [raised |-> TRUE, ivalue |-> Zero]

\* Lines 174-181 for one neuron: [raised, current], current being the value
\* n.current holds when the loop is left.
RECURSIVE SumInputs(_, _, _, _)
SumInputs(ns, ivals, ins, current) ==
    IF ins = <<>> THEN [raised |-> FALSE, current |-> current]
    ELSE LET r == InputValue(ns, ivals, Head(ins)[1])
             w == Head(ins)[2]
         IN  IF r.raised THEN [raised |-> TRUE, current |-> current]
             ELSE SumInputs(ns, ivals, Tail(ins), FAdd(current, FMul(r.ivalue, w)))

\* Lines 172-181, the neurons iterated in `order`: [raised, neurons].
RECURSIVE Phase1(_, _, _)
Phase1(ns, ivals, order) ==
    IF order = <<>> THEN [raised |-> FALSE, neurons |-> ns]
    ELSE LET k == Head(order)
             r == SumInputs(ns, ivals, ns[k].inputs, ns[k].bias)
             ns2 == [ns EXCEPT ![k].current = r.current]
         IN  IF r.raised THEN [raised |-> TRUE, neurons |-> ns2]
             ELSE Phase1(ns2, ivals, Tail(order))

\* Lines 183-184, the neurons iterated in `order`.
RECURSIVE Phase2(_, _, _)
Phase2(ns, dt, order) ==
    IF order = <<>> THEN ns
    ELSE Phase2([ns EXCEPT ![Head(order)] = NeuronAdvance(ns[Head(order)], dt)],
                dt, Tail(order))

\* Line 186 written over the neurons in key order instead of self.outputs.
RECURSIVE KeysAscending(_)
KeysAscending(S) ==
    IF S = {} THEN <<>>
    ELSE LET m == CHOOSE x \in S : \A y \in S : x <= y
         IN  <<m>> \o KeysAscending(S \ {m})

OutputsInStorageOrder(ns, outs) ==
    [i \in DOMAIN outs |-> ns[KeysAscending(DOMAIN ns)[i]].fired]

\* Line 186.
Outputs(ns, outs) == [i \in DOMAIN outs |-> ns[outs[i]].fired]

\* advance with one loop: each neuron is advanced as soon as its current is known.
RECURSIVE Interleaved(_, _, _, _)
Interleaved(ns, ivals, dt, order) ==
    IF order = <<>> THEN [raised |-> FALSE, neurons |-> ns]
    ELSE LET k == Head(order)
             r == SumInputs(ns, ivals, ns[k].inputs, ns[k].bias)
             ns2 == [ns EXCEPT ![k].current = r.current]
         IN  IF r.raised THEN [raised |-> TRUE, neurons |-> ns2]
             ELSE Interleaved([ns2 EXCEPT ![k] = NeuronAdvance(ns2[k], dt)],
                              ivals, dt, Tail(order))

AdvanceInterleaved(ns, ivals, outs, dt, order) ==
    LET p == Interleaved(ns, ivals, dt, order)
    IN  IF p.raised THEN [err |-> "KeyError", neurons |-> p.neurons, ret |-> <<>>]
        ELSE [err |-> "none", neurons |-> p.neurons, ret |-> Outputs(p.neurons, outs)]

\* IZNN.advance: [err, neurons, ret].
AdvanceCall(ns, ivals, outs, dt, order) ==
    LET p1 == Phase1(ns, ivals, order)
        p2 == Phase2(p1.neurons, dt, order)
    IN  IF p1.raised THEN [err |-> "KeyError", neurons |-> p1.neurons, ret |-> <<>>]
        ELSE IF ~(Range(outs) \subseteq DOMAIN ns)
        THEN [err |-> "KeyError", neurons |-> p2, ret |-> <<>>]
        ELSE [err |-> "none", neurons |-> p2, ret |-> Outputs(p2, outs)]

\* IZNN.reset.
ResetCall(ns) == [k \in DOMAIN ns |-> NeuronReset(ns[k])]

(***************************************************************************)
(* neat.graphs.required_for_output, by its contract: the output keys and   *)
(* every key that is no input key and has a path of enabled connections    *)
(* to an output key.                                                       *)
(***************************************************************************)
RECURSIVE Reach(_, _, _)
Reach(req, ins, conns) ==
    LET t == {conns[j].key[1] : j \in {i \in DOMAIN conns :
                     conns[i].enabled /\ conns[i].key[2] \in req}} \ (req \cup ins)
    IN  IF t = {} THEN req ELSE Reach(req \cup t, ins, conns)

RequiredForOutput(input_keys, output_keys, conns) ==
    Reach(Range(output_keys), Range(input_keys), conns)

(***************************************************************************)
(* IZNN.create.                                                            *)
(***************************************************************************)
\* Lines 197-202 without the test of cg.enabled.
ExpressedIgnoringEnabled(cg, required) ==
    ~(cg.key[2] \notin required /\ cg.key[1] \notin required)

\* Lines 197-202: the connection gene is not skipped.
Expressed(cg, required) ==
    IF ~cg.enabled THEN FALSE
    ELSE IF cg.key[2] \notin required /\ cg.key[1] \notin required THEN FALSE
    ELSE TRUE

\* Lines 195-207: node_inputs after the loop over genome.connections.
RECURSIVE NodeInputs(_, _, _)
NodeInputs(node_inputs, conns, required) ==
    IF conns = <<>> THEN node_inputs
    ELSE LET cg == Head(conns)
             i == cg.key[1]
             o == cg.key[2]
         IN  IF ~Expressed(cg, required)
             THEN NodeInputs(node_inputs, Tail(conns), required)
             ELSE IF o \notin DOMAIN node_inputs
             THEN NodeInputs(DictSet(node_inputs, o, <<<<i, cg.weight>>>>),
                             Tail(conns), required)
             ELSE NodeInputs(DictSet(node_inputs, o, Append(node_inputs[o], <<i, cg.weight>>)),
                             Tail(conns), required)

\* Lines 209-213 with the loop written over node_inputs instead of required.
BuildNeuronsFromInputs(g, required, node_inputs) ==
    [node_key \in DOMAIN node_inputs |->
        LET ng == g.nodes[node_key]
        IN  IZNeuron(ng.bias, ng.a, ng.b, ng.c, ng.d, node_inputs[node_key])]

\* Lines 209-213: the neurons of the phenotype.
BuildNeurons(g, required, node_inputs) ==
    [node_key \in required |->
        LET ng == g.nodes[node_key]
            ins == IF node_key \in DOMAIN node_inputs THEN node_inputs[node_key] ELSE <<>>
        IN  IZNeuron(ng.bias, ng.a, ng.b, ng.c, ng.d, ins)]

\* IZNN.create: [err, neurons, inputs, outputs].
CreateCall(g) ==
    LET required == RequiredForOutput(g.input_keys, g.output_keys, g.connections)
        node_inputs == NodeInputs(<<>>, g.connections, required)
    IN  IF ~(required \subseteq DOMAIN g.nodes)
        THEN [err |-> "KeyError", neurons |-> <<>>, inputs |-> <<>>, outputs |-> <<>>]
        ELSE [err |-> "none", neurons |-> BuildNeurons(g, required, node_inputs),
              inputs |-> g.input_keys, outputs |-> g.output_keys]

(***************************************************************************)
(* The genomes, input values and time steps the model is run on.           *)
(***************************************************************************)
NodeSpec(bias, a, b, c, d) == [bias |-> bias, a |-> a, b |-> b, c |-> c, d |-> d]

REGULAR_SPIKING_PARAMS == NodeSpec(Zero, Lit(2, 100), Lit(20, 100), Lit(-65, 1), Lit(8, 1))
CHATTERING_PARAMS == NodeSpec(Zero, Lit(2, 100), Lit(20, 100), Lit(-50, 1), Lit(2, 1))
\* A node whose after-spike reset value c lies above the spike threshold.
HighResetParams == NodeSpec(Lit(1, 1), Lit(2, 100), Lit(20, 100), Lit(40, 1), Lit(8, 1))

Conn(i, o, w, e) == [key |-> <<i, o>>, weight |-> w, enabled |-> e]

\* A weight that turns an input of 1.0 into a spike within one step, and one
\* that drives the membrane potential out of the range of v ** 2.  An input
\* of 1000.0 overflows v ** 2 through WSpike and the product through WOverflow.
WSpike == Lit(200, 1)
WOverflow == Lit(-2000, 1)

Genome(nodes, conns, input_keys, output_keys) ==
    [nodes |-> nodes, connections |-> conns, input_keys |-> input_keys,
     output_keys |-> output_keys]

NodeKeys == {0, 1, 2}

\* Two output neurons: 0 is fed by the input, 1 by neuron 0 and by itself.
RecurrentGenome ==
    Genome([k \in NodeKeys |-> REGULAR_SPIKING_PARAMS],
           <<Conn(-1, 0, WSpike, TRUE), Conn(0, 1, WSpike, TRUE),
             Conn(1, 1, WOverflow, TRUE)>>,
           <<-1>>, <<1, 0>>)

\* One output neuron with c > 30; the input key -2 feeds no neuron.
HighResetGenome ==
    Genome([k \in NodeKeys |-> HighResetParams],
           <<Conn(-1, 0, WOverflow, TRUE)>>,
           <<-1, -2>>, <<0>>)

\* A hidden neuron between input and output, and a disabled connection.
HiddenGenome ==
    Genome([k \in NodeKeys |-> IF k = 2 THEN CHATTERING_PARAMS ELSE REGULAR_SPIKING_PARAMS],
           <<Conn(-1, 2, WSpike, TRUE), Conn(2, 0, WSpike, TRUE),
             Conn(0, 1, WSpike, FALSE)>>,
           <<-1>>, <<1, 0>>)

SimGenomes == {RecurrentGenome, HighResetGenome, HiddenGenome}

InputVals == {Lit(1, 1), Lit(1000, 1)}

DTs == {Lit(1, 1), Lit(5, 100)}

\* The argument lists set_inputs is called with: every length up to one more
\* than the number of input keys.
ValSeqs(keys) == UNION {[1..n -> InputVals] : n \in 0..(Len(keys) + 1)}

\* A network made without a genome: neuron 0 reads the key -3, which is no
\* neuron and no input key.
UnboundNet ==
    [neurons |-> [k \in {0, 1} |->
         IF k = 0
         THEN IZNeuron(Zero, Lit(2, 100), Lit(20, 100), Lit(-65, 1), Lit(8, 1),
                       <<<<-1, WSpike>>, <<-3, WSpike>>>>)
         ELSE IZNeuron(Zero, Lit(2, 100), Lit(20, 100), Lit(-65, 1), Lit(8, 1),
                       <<<<-1, WSpike>>, <<0, WSpike>>>>)],
     inputs |-> <<-1>>,
     outputs |-> <<1, 0>>]

\* One neuron that feeds itself, under a key that is also declared an input
\* key; its bias alone makes it fire.
CollidingNet ==
    [neurons |-> [k \in {0} |->
         IZNeuron(WSpike, Lit(2, 100), Lit(20, 100), Lit(-65, 1), Lit(8, 1),
                  <<<<0, WSpike>>>>)],
     inputs |-> <<0>>,
     outputs |-> <<0>>]

DirectNets == {UnboundNet, CollidingNet}

\* No genome: the network was not made by create.
NoGenome == Genome(<<>>, <<>>, <<>>, <<>>)

\* The genomes the builder is run on: every sequence of at most MaxConns
\* connection genes with distinct keys.
ConnKeys == {<<-1, 0>>, <<-2, 0>>, <<2, 0>>, <<0, 2>>, <<-1, 2>>, <<1, 1>>}

ConnGenes == {Conn(k[1], k[2], w, e) : k \in ConnKeys, w \in {WSpike, WOverflow}, e \in BOOLEAN}

ConnSeqs ==
    UNION {{s \in [1..n -> ConnGenes] :
              \A i, j \in 1..n : i # j => s[i].key # s[j].key} : n \in 0..MaxConns}

\* Scenario B of the specification.
ScenarioB ==
    Genome([k \in {0} |-> REGULAR_SPIKING_PARAMS],
           <<Conn(-1, 0, One, TRUE), Conn(-2, 0, One, FALSE)>>,
           <<-1, -2>>, <<0>>)

BuildGenomes ==
    {ScenarioB} \cup
    {Genome([k \in NodeKeys |-> IF k = 2 THEN CHATTERING_PARAMS ELSE REGULAR_SPIKING_PARAMS],
            conns, <<-1, -2>>, <<1, 0>>) : conns \in ConnSeqs}

(***************************************************************************)
(* The state machine.  pc = "genome": no phenotype yet; pc = "built": the  *)
(* IZNN (neurons, inputs, outputs, input_values) was returned by           *)
(* IZNN.create(genome, config); pc = "constructed": it was made by calling *)
(* IZNN(neurons, inputs, outputs) on hand-made neurons.  last records the  *)
(* last call: its name, the error it raised, what it returned, the dt of   *)
(* an advance and the number of values given to set_inputs (or the n of    *)
(* best_unique_genomes).                                                   *)
(***************************************************************************)
Live == pc \in {"built", "constructed"}

Call(op, err, ret, dt, nargs) ==
    [op |-> op, err |-> err, ret |-> ret, dt |-> dt, nargs |-> nargs]

InitWith(genomes) ==
    /\ genome \in genomes
    /\ pc = "genome"
    /\ neurons = <<>>
    /\ inputs = <<>>
    /\ outputs = <<>>
    /\ input_values = EmptyDict
    /\ steps = 0
    /\ last = Call("none", "none", <<>>, Zero, 0)
    /\ genes = <<>>
    /\ most_fit_genomes = <<>>
    /\ generation_statistics = <<>>

Init == InitWith(SimGenomes)

InitBuild == InitWith(BuildGenomes)

Create ==
    /\ pc = "genome"
    /\ LET r == CreateCall(genome)
       IN  /\ pc' = IF r.err = "none" THEN "built" ELSE pc
           /\ neurons' = r.neurons
           /\ inputs' = r.inputs
           /\ outputs' = r.outputs
           /\ last' = Call("create", r.err, <<>>, Zero, 0)
    /\ input_values' = EmptyDict
    /\ UNCHANGED <<genome, steps, geneVars, statVars>>

\* IZNN.__init__ called on neurons made with IZNeuron(...).
Construct ==
    /\ pc = "genome"
    /\ \E net \in DirectNets :
          /\ neurons' = net.neurons
          /\ inputs' = net.inputs
          /\ outputs' = net.outputs
    /\ pc' = "constructed"
    /\ input_values' = EmptyDict
    /\ last' = Call("IZNN", "none", <<>>, Zero, 0)
    /\ genome' = NoGenome
    /\ UNCHANGED <<steps, geneVars, statVars>>

SetInputs ==
    /\ Live
    /\ \E vals \in ValSeqs(inputs) :
          LET r == SetInputsCall(input_values, inputs, vals)
          IN  /\ input_values' = r.input_values
              /\ last' = Call("set_inputs", r.err, <<>>, Zero, Len(vals))
    /\ UNCHANGED <<genome, pc, neurons, inputs, outputs, steps, geneVars, statVars>>

Advance ==
    /\ Live
    /\ steps < MaxSteps
    /\ \E dt \in DTs, order \in Orders(DOMAIN neurons) :
          LET r == AdvanceCall(neurons, input_values, outputs, dt, order)
          IN  /\ neurons' = r.neurons
              /\ last' = Call("advance", r.err, r.ret, dt, 0)
    /\ steps' = steps + 1
    /\ UNCHANGED <<genome, pc, inputs, outputs, input_values, geneVars, statVars>>

\* reset that also forgets the bound input values.
ResetClearsInputs ==
    /\ Live
    /\ neurons' = ResetCall(neurons)
    /\ input_values' = EmptyDict
    /\ last' = Call("reset", "none", <<>>, Zero, 0)
    /\ UNCHANGED <<genome, pc, inputs, outputs, steps, geneVars, statVars>>

Reset ==
    /\ Live
    /\ neurons' = ResetCall(neurons)
    /\ last' = Call("reset", "none", <<>>, Zero, 0)
    /\ UNCHANGED <<genome, pc, inputs, outputs, input_values, steps, geneVars, statVars>>

Next == Create \/ Construct \/ SetInputs \/ Advance \/ Reset

Spec == Init /\ [][Next]_vars

NextBuild == Create

SpecBuild == InitBuild /\ [][NextBuild]_vars

\* ---- IZNodeGene.distance ----

\* abs() of a float: the sign is dropped, also of an infinity; NaN stays NaN.
FAbs(x) == Abs(x)

\* distance with the bias counted like the other attributes.
DistanceWithBias(x, y, k) ==
    FMul(FAdd(FAdd(FAdd(FAdd(FAbs(FSub(x.bias, y.bias)), FAbs(FSub(x.a, y.a))),
                        FAbs(FSub(x.b, y.b))),
                   FAbs(FSub(x.c, y.c))),
              FAbs(FSub(x.d, y.d))),
         k)

\* Lines 51-54, k being config.compatibility_weight_coefficient.
Distance(x, y, k) ==
    FMul(FAdd(FAdd(FAdd(FAbs(FSub(x.a, y.a)), FAbs(FSub(x.b, y.b))),
                   FAbs(FSub(x.c, y.c))),
              FAbs(FSub(x.d, y.d))),
         k)

\* The node genes the distance is taken between.
DistSpecs ==
    {NodeSpec(bias, a, b, c, d) :
        bias \in {Zero, One}, a \in {Lit(2, 100), Lit(10, 100)},
        b \in {Lit(20, 100), Lit(25, 100)}, c \in {Lit(-65, 1), Lit(-50, 1)},
        d \in {Lit(8, 1), Lit(5, 100)}}

\* Values of compatibility_weight_coefficient: whole numbers, for which the
\* fixed-point product is exact, one of them near the top of the range, and
\* infinity.
Coeffs == {Zero, One, Lit(2, 1), Lit(1000, 1), Lit(150000, 1), PInf}

InitDist ==
    /\ genes \in [x : DistSpecs, y : DistSpecs, k : Coeffs]
    /\ genome = NoGenome
    /\ pc = "genes"
    /\ neurons = <<>>
    /\ inputs = <<>>
    /\ outputs = <<>>
    /\ input_values = EmptyDict
    /\ steps = 0
    /\ last = Call("none", "none", <<>>, Zero, 0)
    /\ most_fit_genomes = <<>>
    /\ generation_statistics = <<>>

\* x.distance(y, config): the result is kept in last.ret.
Measure ==
    /\ pc = "genes"
    /\ pc' = "measured"
    /\ last' = Call("distance", "none", <<Distance(genes.x, genes.y, genes.k)>>, Zero, 0)
    /\ UNCHANGED <<genome, neurons, inputs, outputs, input_values, steps, geneVars, statVars>>

NextDist == Measure

SpecDist == InitDist /\ [][NextDist]_vars

\* ---- StatisticsReporter (src/neat/statistics.py) ----

\* The number of generations reported.
MaxGens == 3

\* A genome as the reporter sees it: its key and its fitness.
KnownGenome(key, fitness) == [key |-> key, fitness |-> fitness]

\* The best genomes a generation can report; a genome kept from one
\* generation to the next may be evaluated to another fitness.
KnownGenomes == {KnownGenome(key, fitness) : key \in {1, 2}, fitness \in {Lit(5, 1), Lit(7, 1), Lit(10, 1)}}

\* species.species of a generation: no species, or one whose only member is
\* the best genome.
SpeciesSets(best) == {EmptyDict, [sid \in {1} |-> [k \in {best.key} |-> best]]}

\* Lines 43-46: the fitness of every member of every species.
SpeciesStats(species) ==
    [sid \in DOMAIN species |-> [k \in DOMAIN species[sid] |-> species[sid][k].fitness]]

\* Lines 90-92: for every key the genome recorded last under it.
BestUnique(mfg) ==
    [key \in {mfg[i].key : i \in DOMAIN mfg} |->
        mfg[CHOOSE i \in DOMAIN mfg :
                /\ mfg[i].key = key
                /\ \A j \in DOMAIN mfg : mfg[j].key = key => j <= i]]

\* sorted(list, key=fitness, reverse=True) of line 98 for the genomes gs:
\* every arrangement in non-increasing fitness (the order of the values of
\* a dict, which decides between equal fitnesses, is not fixed).
SortedByFitness(gs) ==
    {s \in Orders(gs) : \A i \in 1..(Len(s) - 1) : ~FGt(s[i + 1].fitness, s[i].fitness)}

\* The slice [:n] for n >= 0.
Take(s, n) == SubSeq(s, 1, IF n < Len(s) THEN n ELSE Len(s))

\* Lines 88-98: the lists best_unique_genomes(n) can return.
BestUniqueGenomesCall(mfg, n) == {Take(s, n) : s \in SortedByFitness(Range(BestUnique(mfg)))}

InitStats ==
    /\ most_fit_genomes = <<>>
    /\ generation_statistics = <<>>
    /\ genes = <<>>
    /\ genome = NoGenome
    /\ pc = "reporter"
    /\ neurons = <<>>
    /\ inputs = <<>>
    /\ outputs = <<>>
    /\ input_values = EmptyDict
    /\ steps = 0
    /\ last = Call("StatisticsReporter", "none", <<>>, Zero, 0)

\* post_evaluate(config, population, species, best_genome).
PostEvaluate ==
    /\ pc = "reporter"
    /\ Len(most_fit_genomes) < MaxGens
    /\ \E best \in KnownGenomes : \E species \in SpeciesSets(best) :
          /\ most_fit_genomes' = Append(most_fit_genomes, best)
          /\ generation_statistics' = Append(generation_statistics, SpeciesStats(species))
    /\ last' = Call("post_evaluate", "none", <<>>, Zero, 0)
    /\ UNCHANGED <<netVars, geneVars>>

\* best_unique_genomes(n): the list returned is kept in last.ret, n in last.nargs.
BestUniqueGenomes ==
    /\ pc = "reporter"
    /\ \E n \in 0..MaxGens : \E ret \in BestUniqueGenomesCall(most_fit_genomes, n) :
          last' = Call("best_unique_genomes", "none", ret, Zero, n)
    /\ UNCHANGED <<netVars, geneVars, statVars>>

NextStats == PostEvaluate \/ BestUniqueGenomes

SpecStats == InitStats /\ [][NextStats]_vars

(***************************************************************************)
(* Properties.  A step is a call of advance, set_inputs or reset exactly   *)
(* when last'.op names it; the unprimed variables are then the state       *)
(* before the call.                                                        *)
(***************************************************************************)
Advanced == last.op = "advance" /\ last.err = "none"
Aborted == last.op = "advance" /\ last.err = "KeyError"

\* The current of neuron k computed from the state before the call alone.
PreCurrent(k) == SumInputs(neurons, input_values, neurons[k].inputs, neurons[k].bias).current

\* Neuron k before the call, holding that current.
PreNeuron(k) == [neurons[k] EXCEPT !.current = PreCurrent(k)]

\* All neurons advanced at once from the state before the call.
Synchronous(dt) == [k \in DOMAIN neurons |-> NeuronAdvance(PreNeuron(k), dt)]

\* Some neuron reads a source that is neither a neuron nor bound in input_values.
MissingBinding ==
    \E k \in DOMAIN neurons : \E j \in DOMAIN neurons[k].inputs :
        /\ neurons[k].inputs[j][1] \notin DOMAIN neurons
        /\ neurons[k].inputs[j][1] \notin DOMAIN input_values

C2_OverflowSuppressesSpike ==
    [][Advanced' =>
        \A k \in DOMAIN neurons :
            Integrate(PreNeuron(k), last'.dt).raised =>
                /\ neurons'[k].fired = Zero
                /\ neurons'[k].v = neurons[k].c
                /\ neurons'[k].u = FMul(neurons[k].b, neurons[k].c)]_vars

C4_ResetRestoresInit ==
    last.op = "reset" =>
        /\ \A k \in DOMAIN neurons :
              LET n == neurons[k]
              IN  neurons[k] = IZNeuron(n.bias, n.a, n.b, n.c, n.d, n.inputs)
        /\ pc = "built" => neurons = CreateCall(genome).neurons
        /\ pc = "constructed" => neurons \in {net.neurons : net \in DirectNets}
        /\ ResetCall(neurons) = neurons

\* reset was called after two advance calls.
C4_Witness == last.op = "reset" /\ steps >= 2 /\ pc = "built"

\* C5: set_inputs with a wrong number of values raises and leaves
\* input_values as it was; with the right number it binds
\* input_values[input_keys[i]] = values[i]; it changes no neuron.
C5_SetInputs ==
    [][/\ Live =>
            \A vals \in ValSeqs(inputs) :
                LET r == SetInputsCall(input_values, inputs, vals)
                IN  IF Len(vals) # Len(inputs)
                    THEN r.err = "AssertionError" /\ r.input_values = input_values
                    ELSE /\ r.err = "none"
                         /\ \A i \in DOMAIN inputs : r.input_values[inputs[i]] = vals[i]
                         /\ DOMAIN r.input_values = DOMAIN input_values \cup Range(inputs)
       /\ last'.op = "set_inputs" =>
            /\ neurons' = neurons
            /\ last'.err = "AssertionError" <=> last'.nargs # Len(inputs)
            /\ last'.err = "AssertionError" => input_values' = input_values
            /\ last'.err = "none" => DOMAIN input_values' = Range(inputs)]_vars

\* set_inputs refused too few values while earlier values were bound.
C5_Witness ==
    /\ last.op = "set_inputs"
    /\ last.err = "AssertionError"
    /\ last.nargs < Len(inputs)
    /\ DOMAIN input_values = Range(inputs)
    /\ Len(inputs) = 2

\* C6: advance raises whenever some neuron reads a source that is neither a
\* neuron nor bound in input_values, and then returns nothing.
C6_MissingBindingRaises ==
    [][last'.op = "advance" =>
        /\ MissingBinding => last'.err = "KeyError"
        /\ last'.err = "KeyError" => last'.ret = <<>>]_vars

\* advance raised KeyError on a network whose input keys are all bound.
C6_Witness == Aborted /\ DOMAIN input_values = Range(inputs) /\ inputs # <<>>

\* C7 as stated: an advance that aborts leaves the network unchanged or
\* fully reset.
C7_AbortLeavesUnchanged ==
    [][Aborted' =>
        /\ input_values' = input_values
        /\ neurons' = neurons \/ neurons' = ResetCall(neurons)]_vars

\* C7 as amended: an advance that aborts changes nothing but the current of
\* neurons; v, u, fired, the parameters and input lists and input_values
\* are as before the call.
C7_AbortChangesOnlyCurrent ==
    [][Aborted' =>
        /\ input_values' = input_values
        /\ DOMAIN neurons' = DOMAIN neurons
        /\ \A k \in DOMAIN neurons :
              [neurons'[k] EXCEPT !.current = neurons[k].current] = neurons[k]]_vars

\* An aborted advance has left a current that is not the bias.
C7_Witness ==
    /\ Aborted
    /\ \E k \in DOMAIN neurons : neurons[k].current # neurons[k].bias

\* C8: fired is 0.0 or 1.0 in every state of every neuron.
C8_FiredIsBinary ==
    \A k \in DOMAIN neurons : neurons[k].fired \in {Zero, One}

\* After an advance one neuron has fired and another has not.
C8_Witness ==
    /\ Advanced
    /\ steps >= 2
    /\ \E k \in DOMAIN neurons : neurons[k].fired = One
    /\ \E k \in DOMAIN neurons : neurons[k].fired = Zero

\* C9: a successful advance returns, for each i, the fired value the neuron
\* output_keys[i] has after the step.
C9_OutputOrder ==
    Advanced =>
        /\ Len(last.ret) = Len(outputs)
        /\ \A i \in DOMAIN outputs : last.ret[i] = neurons[outputs[i]].fired

\* Two outputs with different values were returned.
C9_Witness ==
    /\ Advanced
    /\ Len(outputs) = 2
    /\ outputs[1] > outputs[2]
    /\ last.ret[1] # last.ret[2]

\* The (source, weight) pairs of the enabled connections into k, in the order
\* of the connection collection.
RECURSIVE EnabledInto(_, _)
EnabledInto(conns, k) ==
    IF conns = <<>> THEN <<>>
    ELSE IF Head(conns).enabled /\ Head(conns).key[2] = k
         THEN <<<<Head(conns).key[1], Head(conns).weight>>>> \o EnabledInto(Tail(conns), k)
         ELSE EnabledInto(Tail(conns), k)

\* C10: after create the input list of every required node k is the
\* sequence of (source, weight) of the enabled connections into k, in the
\* order of the connection collection; scenario B gives one neuron, 0, with
\* the input list [(-1, 1.0)].
C10_InputLists ==
    pc = "built" =>
        /\ \A k \in RequiredForOutput(genome.input_keys, genome.output_keys,
                                      genome.connections) :
              neurons[k].inputs = EnabledInto(genome.connections, k)
        /\ genome = ScenarioB =>
              DOMAIN neurons = {0} /\ neurons[0].inputs = <<<<-1, One>>>>

\* A neuron built with two inputs in connection order while a third
\* connection into it is disabled.
C10_Witness ==
    /\ pc = "built"
    /\ \E k \in DOMAIN neurons :
          /\ Len(neurons[k].inputs) = 2
          /\ neurons[k].inputs[1][1] > neurons[k].inputs[2][1]
          /\ \E j \in DOMAIN genome.connections :
                ~genome.connections[j].enabled /\ genome.connections[j].key[2] = k


\* The required set of the genome and its connections as a set.
Required == RequiredForOutput(genome.input_keys, genome.output_keys, genome.connections)
Connections == Range(genome.connections)

\* C11: the built network has one neuron for each required key and none for
\* any other key, made from that key's node gene; a required node with no
\* enabled incoming connection has an empty input list; the input and
\* output keys are those of the configuration.
C11_NeuronsAreRequired ==
    pc = "built" =>
        /\ DOMAIN neurons = Required
        /\ \A k \in Required :
              LET ng == genome.nodes[k]
              IN  /\ neurons[k] = IZNeuron(ng.bias, ng.a, ng.b, ng.c, ng.d, neurons[k].inputs)
                  /\ (\A cg \in Connections : ~(cg.enabled /\ cg.key[2] = k))
                        => neurons[k].inputs = <<>>
        /\ inputs = genome.input_keys
        /\ outputs = genome.output_keys

\* A required node whose only incoming connection is disabled got a neuron
\* without inputs, beside a neuron with inputs.
C11_Witness ==
    /\ pc = "built"
    /\ \E k \in DOMAIN neurons :
          /\ neurons[k].inputs = <<>>
          /\ \E cg \in Connections : ~cg.enabled /\ cg.key[2] = k
    /\ \E k \in DOMAIN neurons : neurons[k].inputs # <<>>

\* The connection gene is enabled and one of its endpoints is required.
Survives(cg) == cg.enabled /\ (cg.key[1] \in Required \/ cg.key[2] \in Required)

\* C12 as stated: the destination of every connection that survives pruning
\* has a neuron.
C12_SurvivorHasNeuron ==
    pc = "built" => \A cg \in Connections : Survives(cg) => cg.key[2] \in DOMAIN neurons

\* C12 as amended: the destination of a surviving connection has a neuron,
\* which lists the connection, when the destination is required; when only
\* the source is required the destination has no neuron and the connection
\* is in no input list.
C12_RequiredSurvivorHasNeuron ==
    pc = "built" =>
        \A cg \in Connections : Survives(cg) =>
            IF cg.key[2] \in Required
            THEN /\ cg.key[2] \in DOMAIN neurons
                 /\ <<cg.key[1], cg.weight>> \in Range(neurons[cg.key[2]].inputs)
            ELSE cg.key[2] \notin DOMAIN neurons

\* A surviving connection into a required node and one out of a required node
\* into a node that is not required.
C12_Witness ==
    /\ pc = "built"
    /\ \E cg \in Connections : Survives(cg) /\ cg.key[2] \in Required
    /\ \E cg \in Connections : Survives(cg) /\ cg.key[2] \notin Required


\* The input values bound by a successful set_inputs(vals) on the built network.
BoundBy(vals) == SetInputsCall(EmptyDict, inputs, vals)

\* The neurons ms have the keys and the input lists of the neurons ns.
SameWiring(ns, ms) ==
    /\ DOMAIN ms = DOMAIN ns
    /\ \A k \in DOMAIN ns : ms[k].inputs = ns[k].inputs

\* An advance from neurons ns with the values ivals bound raises no KeyError,
\* and the neurons it leaves, also after a reset, have the keys and input
\* lists of ns, on which alone the lookups of a later advance depend.
NeverMissing(ns, ivals) ==
    \A first \in {AdvanceCall(ns, ivals, outputs, Lit(1, 1), KeysAscending(DOMAIN ns))} :
        /\ first.err = "none"
        /\ SameWiring(ns, first.neurons)
        /\ SameWiring(ns, ResetCall(first.neurons))

\* One value for each declared input key, strong enough to make neurons fire.
StrongInputs == [i \in DOMAIN inputs |-> Lit(1000, 1)]

\* C13: in a built network every source key of every input list is a neuron
\* key or a declared input key, so after a successful set_inputs no advance
\* (the first, a later one, one after reset) misses an input binding.
C13_SourcesAreBound ==
    pc = "built" =>
        /\ \A k \in DOMAIN neurons : \A j \in DOMAIN neurons[k].inputs :
              neurons[k].inputs[j][1] \in DOMAIN neurons \cup Range(inputs)
        /\ BoundBy(StrongInputs).err = "none"
        /\ NeverMissing(neurons, BoundBy(StrongInputs).input_values)

\* A built network with a neuron fed by an input key and a neuron fed by a
\* neuron, from a genome that also has a disabled connection out of a node
\* that is not required.
C13_Witness ==
    /\ pc = "built"
    /\ \E k \in DOMAIN neurons : \E i \in DOMAIN neurons[k].inputs :
          neurons[k].inputs[i][1] \in Range(inputs)
    /\ \E k \in DOMAIN neurons : \E i \in DOMAIN neurons[k].inputs :
          neurons[k].inputs[i][1] \in DOMAIN neurons
    /\ \E cg \in Connections : ~cg.enabled /\ cg.key[1] \in NodeKeys \ Required


\* C14: reset leaves input_values, the input and output keys and every
\* neuron's parameters and input list unchanged, and an advance issued right
\* after it computes the currents from the values bound before the reset.
C14_ResetKeepsInputs ==
    [][/\ last'.op = "reset" =>
            /\ input_values' = input_values
            /\ inputs' = inputs
            /\ outputs' = outputs
            /\ DOMAIN neurons' = DOMAIN neurons
            /\ \A k \in DOMAIN neurons :
                  LET n == neurons[k]
                      m == neurons'[k]
                  IN  <<m.bias, m.a, m.b, m.c, m.d, m.inputs>>
                          = <<n.bias, n.a, n.b, n.c, n.d, n.inputs>>
       /\ (last.op = "reset" /\ Advanced') =>
            /\ input_values' = input_values
            /\ \A k \in DOMAIN neurons : neurons'[k].current = PreCurrent(k)
      ]_vars

\* reset was called on a network that has advanced with input values bound,
\* and some neuron reads one of them.
C14_Witness ==
    /\ last.op = "reset"
    /\ steps >= 1
    /\ input_values # EmptyDict
    /\ \E k \in DOMAIN neurons : \E i \in DOMAIN neurons[k].inputs :
          neurons[k].inputs[i][1] \in DOMAIN input_values

\* C15: in a network built from a genome the state after every call and the
\* outputs an advance returns are the same for every order in which the
\* neurons are iterated, so two networks built from the same genome and
\* driven by the same calls stay in identical states.
C15_Deterministic ==
    [][(pc = "built" /\ last'.op = "advance") =>
            \A order \in Orders(DOMAIN neurons) :
                \A r \in {AdvanceCall(neurons, input_values, outputs, last'.dt, order)} :
                    /\ r.neurons = neurons'
                    /\ r.ret = last'.ret
                    /\ r.err = last'.err
      ]_vars

\* A built network of three neurons after two advances, with a spike returned.
C15_Witness ==
    /\ pc = "built"
    /\ Advanced
    /\ steps >= 2
    /\ Cardinality(DOMAIN neurons) = 3
    /\ \E i \in DOMAIN last.ret : last.ret[i] = One


\* The value Phase 1 reads for the source key i: a neuron's fired of the
\* previous step when i is a neuron key, the bound input value otherwise.
SourceValue(i) == IF i \in DOMAIN neurons THEN neurons[i].fired ELSE input_values[i]

\* bias plus the weighted values of the first j inputs of neuron k, in order.
RECURSIVE WeightedSum(_, _)
WeightedSum(k, j) ==
    IF j = 0 THEN neurons[k].bias
    ELSE FAdd(WeightedSum(k, j - 1),
              FMul(neurons[k].inputs[j][2], SourceValue(neurons[k].inputs[j][1])))

\* C18: after a successful advance every neuron's current is its bias plus
\* the sum over its input list, in order, of weight * value, the value being
\* the source neuron's previous fired when the source is a neuron key (also
\* when input_values binds that key) and input_values[source] otherwise; it
\* does not depend on the current before the call, and a neuron without
\* inputs has current = bias.
C18_CurrentIsBiasPlusInputs ==
    [][Advanced' =>
            \A k \in DOMAIN neurons :
                /\ neurons'[k].current = WeightedSum(k, Len(neurons[k].inputs))
                /\ neurons[k].inputs = <<>> => neurons'[k].current = neurons[k].bias
      ]_vars

\* After a successful advance a neuron holds a current that differs from both
\* its bias and its current of a step before, through a source key that is a
\* neuron key and also bound in input_values to a value other than fired.
C18_Witness ==
    /\ Advanced
    /\ steps >= 2
    /\ \E k \in DOMAIN neurons : \E i \in DOMAIN neurons[k].inputs :
          LET src == neurons[k].inputs[i][1]
          IN  /\ src \in DOMAIN neurons
              /\ src \in DOMAIN input_values
              /\ input_values[src] # neurons[src].fired
              /\ neurons[k].current # neurons[k].bias


\* The fields of a neuron that IZNeuron.advance must leave alone.
Frame(n) == <<n.bias, n.a, n.b, n.c, n.d, n.inputs, n.current>>

\* C19: Neuron.advance changes none of current, bias, a, b, c, d and the
\* input list, on the normal, spike and overflow paths; so after a
\* successful Network.advance every neuron holds the current Phase 1
\* computed and was integrated with it, advancing one neuron changes no
\* other neuron, and input_values is unchanged.
C19_AdvanceFrame ==
    [][Advanced' =>
            /\ input_values' = input_values
            /\ \A k \in DOMAIN neurons :
                  /\ Frame(neurons'[k]) = Frame(PreNeuron(k))
                  /\ neurons'[k] = NeuronAdvance(PreNeuron(k), last'.dt)
                  /\ Frame(NeuronAdvance(neurons[k], last'.dt)) = Frame(neurons[k])
                  /\ \A j \in DOMAIN neurons \ {k} :
                        Phase2(neurons, last'.dt, <<k>>)[j] = neurons[j]
      ]_vars

\* Neuron k as it is right after construction or reset, holding its present current.
FreshWithCurrent(k) == [NeuronReset(neurons[k]) EXCEPT !.current = neurons[k].current]

\* After a successful advance a neuron is in the state the overflow path
\* leaves from a fresh neuron, with a current other than its bias.
C19_Witness ==
    /\ Advanced
    /\ \E k \in DOMAIN neurons :
          /\ Integrate(FreshWithCurrent(k), last.dt).raised
          /\ neurons[k] = NeuronAdvance(FreshWithCurrent(k), last.dt)
          /\ neurons[k].current # neurons[k].bias


\* One half-step of v as the claim writes it:
\* v + 0.5 * dt * (0.04 * v^2 + 5 * v + 140 - u + current).
RefHalfStep(v, u, current, dt) ==
    LET quad == FMul(QuadCoeff, FMul(v, v))
        lin == FMul(Five, v)
        rhs == FAdd(FSub(FAdd(FAdd(quad, lin), Offset), u), current)
    IN  FAdd(v, FMul(FMul(Half, dt), rhs))

\* The neuron the claim's recipe gives from n: two half-steps of v with the
\* u and current of n, then u once from the final v, then the threshold test.
RefAdvance(n, dt) ==
    LET v1 == RefHalfStep(n.v, n.u, n.current, dt)
        v2 == RefHalfStep(v1, n.u, n.current, dt)
        u2 == FAdd(n.u, FMul(FMul(dt, n.a), FSub(FMul(n.b, v2), n.u)))
    IN  IF FGt(v2, Threshold)
        THEN [n EXCEPT !.fired = One, !.v = n.c, !.u = FAdd(u2, n.d)]
        ELSE [n EXCEPT !.fired = Zero, !.v = v2, !.u = u2]

\* C20: in an advance without overflow v takes two successive half-steps,
\* the second from the v of the first, both with the same current and the u
\* from before the call; then u is updated once from the resulting v, and
\* the threshold test is applied to that v.
C20_TwoHalfSteps ==
    [][Advanced' =>
            \A k \in DOMAIN neurons :
                ~Integrate(PreNeuron(k), last'.dt).raised
                    => neurons'[k] = RefAdvance(PreNeuron(k), last'.dt)
      ]_vars

\* After a successful advance one neuron has moved off its reset values
\* without firing and another has fired; neither took the overflow path.
C20_Witness ==
    /\ Advanced
    /\ \E k \in DOMAIN neurons :
          /\ neurons[k].fired = Zero
          /\ IsFin(neurons[k].v)
          /\ neurons[k].v # neurons[k].c
          /\ neurons[k].u # FMul(neurons[k].b, neurons[k].c)
    /\ \E k \in DOMAIN neurons :
          /\ neurons[k].fired = One
          /\ FGt(Threshold, neurons[k].c)


Two == Lit(2, 1)

\* The sum of the absolute differences of a, b, c and d.
AttributeSum(x, y) ==
    FAdd(FAdd(FAdd(Abs(FSub(x.a, y.a)), Abs(FSub(x.b, y.b))), Abs(FSub(x.c, y.c))),
         Abs(FSub(x.d, y.d)))

\* What every distance satisfies: it is the attribute sum times k, does not
\* depend on either bias, and is symmetric.
DistanceCore(x, y, k) ==
    /\ Distance(x, y, k) = FMul(AttributeSum(x, y), k)
    /\ \A bx, by \in {Zero, One} :
          Distance([x EXCEPT !.bias = bx], [y EXCEPT !.bias = by], k) = Distance(x, y, k)
    /\ Distance(x, y, k) = Distance(y, x, k)

\* C16 as stated: for every coefficient k the distance is the attribute sum
\* times k, independent of bias, symmetric, zero between a spec and itself
\* and doubled when k is doubled; the call changes neither spec.
C16_DistanceLaws ==
    [][last'.op = "distance" =>
            LET x == genes.x
                y == genes.y
                k == genes.k
            IN  /\ genes' = genes
                /\ last'.ret = <<Distance(x, y, k)>>
                /\ DistanceCore(x, y, k)
                /\ Distance(x, x, k) = Zero
                /\ Distance(x, y, FMul(Two, k)) = FMul(Two, Distance(x, y, k))
      ]_vars

\* C16 as amended: zero between a spec and itself for a finite k, doubled
\* with k when 2k is finite too; the rest for every k.
C16_DistanceLawsFinite ==
    [][last'.op = "distance" =>
            LET x == genes.x
                y == genes.y
                k == genes.k
            IN  /\ genes' = genes
                /\ last'.ret = <<Distance(x, y, k)>>
                /\ DistanceCore(x, y, k)
                /\ IsFin(k) => Distance(x, x, k) = Zero
                /\ IsFin(FMul(Two, k)) =>
                      Distance(x, y, FMul(Two, k)) = FMul(Two, Distance(x, y, k))
      ]_vars

\* A finite, positive distance between two specs that differ in bias and in
\* a, taken with a coefficient other than one.
C16_Witness ==
    /\ pc = "measured"
    /\ genes.x.bias # genes.y.bias
    /\ genes.x.a # genes.y.a
    /\ genes.k = Lit(1000, 1)
    /\ IsFin(last.ret[1])
    /\ last.ret[1] > Zero


\* C17: best_unique_genomes(n) returns at most n genomes, no two with the
\* same key, in non-increasing fitness order, and no genome recorded by
\* post_evaluate and left out is fitter than one returned.
C17_BestUnique ==
    last.op = "best_unique_genomes" =>
        /\ Len(last.ret) <= last.nargs
        /\ \A i, j \in DOMAIN last.ret : i # j => last.ret[i].key # last.ret[j].key
        /\ \A i, j \in DOMAIN last.ret : i < j => ~FGt(last.ret[j].fitness, last.ret[i].fitness)
        /\ \A g \in Range(most_fit_genomes) \ Range(last.ret) :
              \A i \in DOMAIN last.ret : ~FGt(g.fitness, last.ret[i].fitness)


\* The float comparisons x <= y and x == y: false when either side is NaN.
FLe(x, y) == ~IsNaN(x) /\ ~IsNaN(y) /\ x <= y
FEq(x, y) == ~IsNaN(x) /\ ~IsNaN(y) /\ x = y

\* C21: after every advance and every reset each neuron's membrane
\* potential satisfies v <= 30.0 or v = c.
C21_PotentialBounded ==
    last.op \in {"advance", "reset"} =>
        \A k \in DOMAIN neurons :
            FLe(neurons[k].v, Threshold) \/ FEq(neurons[k].v, neurons[k].c)

====
